---- MODULE Spec2Model ----
(***************************************************************************)
(* Model of the data-shaping utilities of js-datatypes: the UPI            *)
(* transaction analyzer, the WhatsApp line parser and the railway PNR      *)
(* status report.  Every utility is a pure function: it is an operator     *)
(* here, and a specification draws its argument from a bounded set (Init)  *)
(* and applies the function in one step (the Call action).                 *)
(*                                                                         *)
(* JavaScript values are tagged records, strings that the code inspects    *)
(* character by character are sequences of one-character strings, and an   *)
(* exception leaving a function is the result [kind |-> "throw"].          *)
(***************************************************************************)
EXTENDS Integers, Sequences, FiniteSets

VARIABLES pc, fn, arg, result

vars == <<pc, fn, arg, result>>

\* ------------------------------------------------------------------ bounds
MaxTxns == 2

\* --------------------------------------------------------- generic helpers
SeqsUpTo(S, n) == UNION {[1..k -> S] : k \in 0..n}

SetMin(S) == CHOOSE x \in S : \A y \in S : x <= y

\* ------------------------------------------------------- JavaScript values
Num(n) == [t |-> "number", n |-> n, s |-> "", app |-> <<>>]

Str(s) == [t |-> "string", n |-> 0, s |-> s, app |-> <<>>]

Undefined == [t |-> "undefined", n |-> 0, s |-> "", app |-> <<>>]

\* Object.prototype.constructor, what ({})["constructor"] evaluates to
ObjectConstructor ==
    [t |-> "function", n |-> 0, s |-> "function Object() { [native code] }", app |-> <<>>]

\* the property names every plain object inherits from Object.prototype
ObjectPrototypeKeys == {"constructor", "toString", "valueOf", "hasOwnProperty"}

\* ToBoolean
Truthy(v) ==
    CASE v.t = "number" -> v.n # 0
      [] v.t = "string" -> v.s # "" \/ v.app # <<>>
      [] v.t = "function" -> TRUE
      [] OTHER -> FALSE

\* (v || 0) + n with n a number: numeric addition when the left operand is a
\* number, string concatenation when it is a string or a function
OrZeroPlus(v, n) ==
    LET left == IF Truthy(v) THEN v ELSE Num(0)
    IN  IF left.t = "number"
        THEN Num(left.n + n)
        ELSE [t |-> "string", n |-> 0, s |-> left.s, app |-> Append(left.app, n)]

\* v > m with m a number: a string that is no numeric literal converts to NaN
JsGreater(v, m) == v.t = "number" /\ v.n > m

\* ---------------------------------------------- plain objects used as maps
\* An object is the sequence of its own properties [k, v] in creation order.
OwnIndex(obj, k) == {i \in 1..Len(obj) : obj[i].k = k}

\* obj[k]: the own property, else the inherited one, else undefined
ObjGet(obj, k) ==
    IF OwnIndex(obj, k) # {}
    THEN obj[CHOOSE i \in OwnIndex(obj, k) : TRUE].v
    ELSE IF k \in ObjectPrototypeKeys THEN ObjectConstructor ELSE Undefined

\* obj[k] = v
ObjSet(obj, k, v) ==
    IF OwnIndex(obj, k) # {}
    THEN [i \in 1..Len(obj) |-> IF obj[i].k = k THEN [k |-> k, v |-> v] ELSE obj[i]]
    ELSE Append(obj, [k |-> k, v |-> v])

\* the value of a property name that is an array index ("0", "1", ... in
\* canonical decimal form), -1 for every other name
ArrayIndexOf(k) ==
    CASE k = "0" -> 0
      [] k = "1" -> 1
      [] k = "2" -> 2
      [] k = "9" -> 9
      [] OTHER -> -1

RECURSIVE AscendingIndexKeys(_, _)
\* the properties of obj whose index value is in S, by ascending index value
AscendingIndexKeys(obj, S) ==
    IF S = {} THEN <<>>
    ELSE LET m == SetMin(S)
             p == CHOOSE i \in 1..Len(obj) : ArrayIndexOf(obj[i].k) = m
         IN  <<obj[p]>> \o AscendingIndexKeys(obj, S \ {m})

\* Object.entries: own properties in OrdinaryOwnPropertyKeys order, that is
\* array-index names in ascending numeric order, then the other names in
\* creation order
ObjectEntries(obj) ==
    LET idx == {ArrayIndexOf(obj[i].k) : i \in 1..Len(obj)} \ {-1}
    IN  AscendingIndexKeys(obj, idx)
        \o SelectSeq(obj, LAMBDA e : ArrayIndexOf(e.k) = -1)

\* ------------------------------------------------ results of the functions
NoResult == [kind |-> "none"]

NullResult == [kind |-> "null"]

\* a TypeError leaves the function
Throw == [kind |-> "throw"]

\* ================================================== analyzeUPITransactions
\* A transaction list element is an object with the fields the code reads, or
\* null, or a primitive; ref is the element's identity (its position in the
\* caller's list), so that equal-looking records stay distinguishable.
TxnTypes == {"credit", "debit", "refund"}

TxnAmounts == {Num(0), Num(100), Num(5000)}

ToNames == {"9", "1", "Rahul"}

Categories == {"food", "constructor"}

TxnObjects ==
    [kind : {"object"}, type : TxnTypes, amount : TxnAmounts, to : ToNames,
     category : Categories]

\* { type: "credit", amount: "500", ... }: an amount that is no number
StringAmountTxn ==
    [kind |-> "object", type |-> "credit", amount |-> Str("500"), to |-> "Rahul",
     category |-> "food"]

\* a null element: reading a property of it is a TypeError
NullTxn ==
    [kind |-> "null", type |-> "", amount |-> Undefined, to |-> "", category |-> ""]

\* a primitive element such as 7: every property read gives undefined
PrimitiveTxn ==
    [kind |-> "number", type |-> "", amount |-> Undefined, to |-> "", category |-> ""]

TxnElems == TxnObjects \cup {StringAmountTxn, NullTxn, PrimitiveTxn}

WithRefs(s) ==
    [i \in 1..Len(s) |->
        [kind |-> s[i].kind, ref |-> i, type |-> s[i].type, amount |-> s[i].amount,
         to |-> s[i].to, category |-> s[i].category]]

\* the filter callback of lines 118-122
isValidTxn(txn) ==
    /\ txn.amount.t = "number"
    /\ txn.amount.n > 0
    /\ (txn.type = "credit" \/ txn.type = "debit")

\* the reduce callback of lines 138-153
reduceCallback(acc, txn) ==
    [totalCredit |->
        IF txn.type = "credit" THEN acc.totalCredit + txn.amount.n ELSE acc.totalCredit,
     totalDebit |->
        IF txn.type = "debit" THEN acc.totalDebit + txn.amount.n ELSE acc.totalDebit,
     categoryBreakdown |->
        ObjSet(acc.categoryBreakdown, txn.category,
               OrZeroPlus(ObjGet(acc.categoryBreakdown, txn.category), txn.amount.n)),
     contactFrequency |->
        ObjSet(acc.contactFrequency, txn.to,
               OrZeroPlus(ObjGet(acc.contactFrequency, txn.to), 1)),
     totalAmountSum |-> acc.totalAmountSum + txn.amount.n]

initialAnalysis ==
    [totalCredit |-> 0, totalDebit |-> 0, categoryBreakdown |-> <<>>,
     contactFrequency |-> <<>>, totalAmountSum |-> 0]

RECURSIVE reduceTxns(_, _)
reduceTxns(acc, txns) ==
    IF txns = <<>> THEN acc
    ELSE reduceTxns(reduceCallback(acc, Head(txns)), Tail(txns))

RECURSIVE frequentContactLoop(_, _, _)
\* the for-of loop of lines 159-164 over the entries of contactFrequency
frequentContactLoop(entries, maxCount, frequentContact) ==
    IF entries = <<>> THEN frequentContact
    ELSE IF JsGreater(Head(entries).v, maxCount)
         THEN frequentContactLoop(Tail(entries), Head(entries).v.n, Head(entries).k)
         ELSE frequentContactLoop(Tail(entries), maxCount, frequentContact)

\* where a stable sort by (a, b) => b.amount - a.amount puts x among the
\* already sorted earlier elements: behind every element whose amount is not
\* smaller
insertUnstable(sorted, x) ==
    LET n == Cardinality({i \in 1..Len(sorted) : sorted[i].amount.n > x.amount.n})
    IN  SubSeq(sorted, 1, n) \o <<x>> \o SubSeq(sorted, n + 1, Len(sorted))

insertByAmountDesc(sorted, x) ==
    LET n == Cardinality({i \in 1..Len(sorted) : sorted[i].amount.n >= x.amount.n})
    IN  SubSeq(sorted, 1, n) \o <<x>> \o SubSeq(sorted, n + 1, Len(sorted))

RECURSIVE sortByAmountDesc(_, _)
\* [...validTxns].sort((a, b) => b.amount - a.amount), Array.prototype.sort
\* being stable
sortByAmountDesc(sorted, rest) ==
    IF rest = <<>> THEN sorted
    ELSE sortByAmountDesc(insertByAmountDesc(sorted, Head(rest)), Tail(rest))

\* Math.round(a / b) for a >= 0, b > 0: halves round up
MathRoundDiv(a, b) == (2 * a + b) \div (2 * b)

analyzeUPITransactions(transactions) ==
    IF transactions.kind # "array" \/ Len(transactions.items) = 0 THEN NullResult
    ELSE IF \E i \in 1..Len(transactions.items) : transactions.items[i].kind = "null"
    THEN Throw
    ELSE
    LET validTxns == SelectSeq(transactions.items, isValidTxn)
    IN  IF Len(validTxns) = 0 THEN NullResult
        ELSE
        LET totals == reduceTxns(initialAnalysis, validTxns)
        IN  [kind |-> "object",
             totalCredit |-> totals.totalCredit,
             totalDebit |-> totals.totalDebit,
             netBalance |-> totals.totalCredit - totals.totalDebit,
             transactionCount |-> Len(validTxns),
             avgTransaction |-> MathRoundDiv(totals.totalAmountSum, Len(validTxns)),
             highestTransaction |-> sortByAmountDesc(<<>>, validTxns)[1],
             categoryBreakdown |-> totals.categoryBreakdown,
             frequentContact |->
                frequentContactLoop(ObjectEntries(totals.contactFrequency), 0, ""),
             allAbove100 |-> \A i \in 1..Len(validTxns) : validTxns[i].amount.n > 100,
             hasLargeTransaction |->
                \E i \in 1..Len(validTxns) : validTxns[i].amount.n >= 5000]

\* the arguments a caller may pass: null, a non-list object, or a list
UPIInputs ==
    {[kind |-> "null", items |-> <<>>], [kind |-> "object", items |-> <<>>]}
    \cup {[kind |-> "array", items |-> WithRefs(s)] : s \in SeqsUpTo(TxnElems, MaxTxns)}

InitUPI ==
    /\ pc = "call"
    /\ fn = "analyzeUPITransactions"
    /\ arg \in UPIInputs
    /\ result = NoResult

CallAnalyzeUPI ==
    /\ pc = "call"
    /\ fn = "analyzeUPITransactions"
    /\ result' = analyzeUPITransactions(arg)
    /\ pc' = "done"
    /\ UNCHANGED <<fn, arg>>

NextUPI == CallAnalyzeUPI

SpecUPI == InitUPI /\ [][NextUPI]_vars

\* ------------------------------------- properties of analyzeUPITransactions
\* a record the rules call valid: a positive numeric amount and a type that
\* is exactly "credit" or "debit"
ValidRecord(e) ==
    /\ e.kind = "object"
    /\ e.amount.t = "number"
    /\ e.amount.n > 0
    /\ e.type \in {"credit", "debit"}

ValidPositions == {i \in 1..Len(arg.items) : ValidRecord(arg.items[i])}

AmountAt(i) == arg.items[i].amount.n

RECURSIVE SumOfAmounts(_)
\* the sum of the amounts at the positions S of the input list
SumOfAmounts(S) ==
    IF S = {} THEN 0
    ELSE LET x == CHOOSE y \in S : TRUE IN AmountAt(x) + SumOfAmounts(S \ {x})

RECURSIVE SumOfValues(_)
\* the sum of the values of the properties of an object
SumOfValues(obj) ==
    IF obj = <<>> THEN 0 ELSE Head(obj).v.n + SumOfValues(Tail(obj))

Returned == pc = "done" /\ result.kind = "object"

\* how many valid records name this contact
ContactCount(name) == Cardinality({i \in ValidPositions : arg.items[i].to = name})

ValidContacts == {arg.items[i].to : i \in ValidPositions}

TiedContacts ==
    {c \in ValidContacts : \A d \in ValidContacts : ContactCount(d) <= ContactCount(c)}

FirstPosition(name) == SetMin({i \in ValidPositions : arg.items[i].to = name})

\* C1: when two or more names share the highest count among the valid
\* records, frequentContact is the tied name whose first valid record comes
\* earliest in the input list, also for names that look like integers.
C1_TieGoesToEarliestContact ==
    (Returned /\ Cardinality(TiedContacts) >= 2)
        => /\ result.frequentContact \in TiedContacts
           /\ \A c \in TiedContacts :
                 FirstPosition(result.frequentContact) <= FirstPosition(c)

\* C2: no function raises an exception, whatever the elements of the list
\* it is given: it returns a result or its sentinel.
C2_NoFunctionThrows == pc = "done" => result.kind # "throw"

\* C3: the result is null exactly when the input is not a non-empty list or
\* none of its records is valid; otherwise it is an object whose
\* transactionCount is the number of valid records.
C3_NullExactlyWhenNoValidRecord ==
    pc = "done" =>
        /\ result.kind = "null" <=> (arg.kind # "array" \/ ValidPositions = {})
        /\ (arg.kind = "array" /\ ValidPositions # {}) =>
              /\ result.kind = "object"
              /\ result.transactionCount = Cardinality(ValidPositions)

\* C4: highestTransaction is a valid record of the input whose amount is the
\* maximum over the valid records, and among the valid records with that
\* amount it is the first in input order.
C4_HighestIsFirstMaximum ==
    Returned =>
        LET h == result.highestTransaction
        IN  /\ h.ref \in ValidPositions
            /\ arg.items[h.ref] = h
            /\ \A i \in ValidPositions :
                  /\ AmountAt(i) <= h.amount.n
                  /\ AmountAt(i) = h.amount.n => h.ref <= i

\* C4 witness: a result for a list in which two valid records share the
\* maximum amount
C4_Witness ==
    /\ Returned
    /\ \E i, j \in ValidPositions :
          /\ i < j
          /\ AmountAt(i) = AmountAt(j)
          /\ \A k \in ValidPositions : AmountAt(k) <= AmountAt(i)

\* C5: totalCredit and totalDebit are the sums of the valid credit and debit
\* amounts, netBalance is their difference, and the values of
\* categoryBreakdown are numbers that add up to totalCredit + totalDebit.
C5_TotalsAndBreakdownAddUp ==
    Returned =>
        LET cb == result.categoryBreakdown
        IN  /\ result.totalCredit
                 = SumOfAmounts({i \in ValidPositions : arg.items[i].type = "credit"})
            /\ result.totalDebit
                 = SumOfAmounts({i \in ValidPositions : arg.items[i].type = "debit"})
            /\ result.netBalance = result.totalCredit - result.totalDebit
            /\ \A i \in 1..Len(cb) : cb[i].v.t = "number"
            /\ SumOfValues(cb) = result.totalCredit + result.totalDebit

\* ==================================================== parseWhatsAppMessage
\* A string is the sequence of its characters; positions are counted from 0
\* as in the code.
MaxChunks == 6

MaxTextChunks == 3

WhiteSpaceChars == {" ", "\t", "\n"}

UpperLetters ==
    <<"A", "B", "C", "D", "E", "F", "G", "H", "I", "J", "K", "L", "M",
      "N", "O", "P", "Q", "R", "S", "T", "U", "V", "W", "X", "Y", "Z">>

LowerLetters ==
    <<"a", "b", "c", "d", "e", "f", "g", "h", "i", "j", "k", "l", "m",
      "n", "o", "p", "q", "r", "s", "t", "u", "v", "w", "x", "y", "z">>

\* the characters U+1F602 (face with tears of joy) and U+2764 (heavy heart)
LaughEmoji == "U+1F602"

HeartGlyph == "U+2764"

MatchesAt(s, pat, i) ==
    /\ i >= 0
    /\ i + Len(pat) <= Len(s)
    /\ \A j \in 1..Len(pat) : s[i + j] = pat[j]

\* a mutant of IndexOf: the search always starts at the beginning
IndexOfFromStart(s, pat, from) ==
    LET hits == {i \in 0..Len(s) : MatchesAt(s, pat, i)}
    IN  IF hits = {} THEN -1 ELSE SetMin(hits)

\* s.indexOf(pat, from) for from >= 0
IndexOf(s, pat, from) ==
    LET hits == {i \in from..Len(s) : MatchesAt(s, pat, i)}
    IN  IF hits = {} THEN -1 ELSE SetMin(hits)

\* s.slice(start, end) for 0 <= start and 0 <= end
Slice(s, start, end) ==
    LET e == IF end > Len(s) THEN Len(s) ELSE end
    IN  IF start >= e THEN <<>> ELSE [k \in 1..(e - start) |-> s[start + k]]

\* a mutant of Trim: only the leading white space is removed
TrimStart(s) ==
    LET keep == {i \in 1..Len(s) : s[i] \notin WhiteSpaceChars}
    IN  IF keep = {} THEN <<>> ELSE Slice(s, SetMin(keep) - 1, Len(s))

\* s.trim()
Trim(s) ==
    LET keep == {i \in 1..Len(s) : s[i] \notin WhiteSpaceChars}
    IN  IF keep = {} THEN <<>>
        ELSE Slice(s, SetMin(keep) - 1, CHOOSE i \in keep : \A j \in keep : j <= i)

RECURSIVE SplitFrom(_, _, _, _)
\* the scan of s.split(/\s+/) from position i (counted from 1), cur being
\* the piece under construction and out the pieces already cut
SplitFrom(s, i, cur, out) ==
    IF i > Len(s) THEN Append(out, cur)
    ELSE IF s[i] \in WhiteSpaceChars
         THEN LET after == {j \in i..Len(s) : s[j] \notin WhiteSpaceChars}
              IN  IF after = {} THEN Append(Append(out, cur), <<>>)
                  ELSE SplitFrom(s, SetMin(after), <<>>, Append(out, cur))
         ELSE SplitFrom(s, i + 1, Append(cur, s[i]), out)

\* s.split(/\s+/)
SplitWhiteSpace(s) == SplitFrom(s, 1, <<>>, <<>>)

ToLowerCaseChar(c) ==
    IF \E i \in 1..Len(UpperLetters) : UpperLetters[i] = c
    THEN LowerLetters[CHOOSE i \in 1..Len(UpperLetters) : UpperLetters[i] = c]
    ELSE c

\* s.toLowerCase()
ToLowerCase(s) == [i \in 1..Len(s) |-> ToLowerCaseChar(s[i])]

\* s.includes(pat)
Includes(s, pat) == IndexOf(s, pat, 0) # -1

\* a mutant of sentimentOf: love is tested before funny
sentimentLoveFirst(isFunny, isLove) ==
    IF isLove THEN "love" ELSE IF isFunny THEN "funny" ELSE "neutral"

\* lines 69-78: funny has priority over love
sentimentOf(isFunny, isLove) ==
    IF isFunny THEN "funny" ELSE IF isLove THEN "love" ELSE "neutral"

parseWhatsAppMessage(message) ==
    IF message.kind # "string" THEN NullResult
    ELSE
    LET m == message.chars
        commaIndex == IndexOf(m, <<",", " ">>, 0)
        dashIndex == IndexOf(m, <<" ", "-", " ">>, 0)
    IN  IF commaIndex = -1 \/ dashIndex = -1 THEN NullResult
        ELSE
        LET colonIndex == IndexOf(m, <<":", " ">>, dashIndex)
        IN  IF colonIndex = -1 THEN NullResult
            ELSE
            LET text == Trim(Slice(m, colonIndex + 2, Len(m)))
                lowerText == ToLowerCase(text)
                isFunny == \/ Includes(lowerText, <<LaughEmoji>>)
                           \/ Includes(lowerText, <<":", ")">>)
                           \/ Includes(lowerText, <<"h", "a", "h", "a">>)
                isLove == \/ Includes(lowerText, <<HeartGlyph>>)
                          \/ Includes(lowerText, <<"l", "o", "v", "e">>)
                          \/ Includes(lowerText, <<"p", "y", "a", "a", "r">>)
            IN  [kind |-> "object",
                 date |-> Slice(m, 0, commaIndex),
                 time |-> Slice(m, commaIndex + 2, dashIndex),
                 sender |-> Slice(m, dashIndex + 3, colonIndex),
                 text |-> text,
                 wordCount |->
                    Len(SelectSeq(SplitWhiteSpace(text), LAMBDA word : Len(word) > 0)),
                 sentiment |-> sentimentOf(isFunny, isLove)]

RECURSIVE Flatten(_)
\* the concatenation of a sequence of strings
Flatten(chunks) ==
    IF chunks = <<>> THEN <<>> ELSE Head(chunks) \o Flatten(Tail(chunks))

\* the pieces the lines of the parsing specification are made of: the three
\* delimiters, a blank, and a lone dash as the character words are made of
LineChunks == {<<",", " ">>, <<" ", "-", " ">>, <<":", " ">>, <<" ">>, <<"-">>}

\* the pieces the message texts of the sentiment specification are made of
TextChunks ==
    {<<"h", "a", "h", "a">>, <<"H", "A">>, <<"h", "a">>, <<":", ")">>, <<LaughEmoji>>,
     <<"l", "o", "v", "e">>, <<"L", "o">>, <<"v", "e">>, <<HeartGlyph>>,
     <<"p", "y", "a", "a", "r">>, <<" ">>}

\* "1, 2 - a: ", a well-formed head of a line
LineHead == <<"1", ",", " ", "2", " ", "-", " ", "a", ":", " ">>

NonStringInputs == {[kind |-> "number", chars |-> <<>>], [kind |-> "null", chars |-> <<>>]}

LineInputs ==
    NonStringInputs
    \cup {[kind |-> "string", chars |-> Flatten(cs)] : cs \in SeqsUpTo(LineChunks, MaxChunks)}

TextInputs ==
    {[kind |-> "string", chars |-> LineHead \o Flatten(cs)] :
        cs \in SeqsUpTo(TextChunks, MaxTextChunks)}

InitWA ==
    /\ pc = "call"
    /\ fn = "parseWhatsAppMessage"
    /\ arg \in LineInputs
    /\ result = NoResult

InitWASentiment ==
    /\ pc = "call"
    /\ fn = "parseWhatsAppMessage"
    /\ arg \in TextInputs
    /\ result = NoResult

CallParseWhatsApp ==
    /\ pc = "call"
    /\ fn = "parseWhatsAppMessage"
    /\ result' = parseWhatsAppMessage(arg)
    /\ pc' = "done"
    /\ UNCHANGED <<fn, arg>>

NextWA == CallParseWhatsApp

SpecWA == InitWA /\ [][NextWA]_vars

SpecWASentiment == InitWASentiment /\ [][NextWA]_vars

\* --------------------------------------- properties of parseWhatsAppMessage
CommaSpace == <<",", " ">>

SpaceDashSpace == <<" ", "-", " ">>

ColonSpace == <<":", " ">>

\* pat occurs in s at position from or later
OccursFrom(s, pat, from) == \E i \in from..Len(s) : MatchesAt(s, pat, i)

\* i is where pat first occurs in s at position from or later
FirstAt(s, pat, from, i) ==
    /\ i >= from
    /\ MatchesAt(s, pat, i)
    /\ \A j \in from..(i - 1) : ~MatchesAt(s, pat, j)

\* the characters of s from position a up to, not including, position b
Between(s, a, b) == IF a >= b THEN <<>> ELSE SubSeq(s, a + 1, b)

\* s without its leading and trailing white space, said without slicing:
\* the part of s from its first to its last character that is no white space
Trimmed(s, t) ==
    \/ /\ t = <<>>
       /\ \A i \in 1..Len(s) : s[i] \in WhiteSpaceChars
    \/ \E a \in 1..Len(s) :
          /\ s[a] \notin WhiteSpaceChars
          /\ \A i \in 1..(a - 1) : s[i] \in WhiteSpaceChars
          /\ \E b \in a..Len(s) :
                /\ s[b] \notin WhiteSpaceChars
                /\ \A i \in (b + 1)..Len(s) : s[i] \in WhiteSpaceChars
                /\ t = SubSeq(s, a, b)

\* the number of words of t: the places where a character that is no white
\* space starts the text or follows white space
WordStarts(t) ==
    Cardinality({i \in 1..Len(t) :
        /\ t[i] \notin WhiteSpaceChars
        /\ (i = 1 \/ t[i - 1] \in WhiteSpaceChars)})

\* " - " occurs, and ": " occurs at or after the first " - "
HasDashThenColon(s) ==
    \E d \in 0..Len(s) :
        FirstAt(s, SpaceDashSpace, 0, d) /\ OccursFrom(s, ColonSpace, d)

\* C6 as stated: the result is null exactly when the input is no string or
\* lacks " - " or lacks ": " at or after the first " - "; every other string
\* gives a record.
C6_NullIffDashOrColonMissing ==
    pc = "done" =>
        (result.kind = "null" <=> (arg.kind # "string" \/ ~HasDashThenColon(arg.chars)))

\* C6 amended: the result is null exactly when the input is no string, or
\* contains no ", ", or no " - ", or no ": " at or after the first " - ";
\* every other string gives a record with date, time, sender, text,
\* wordCount and sentiment.
C6_NullIffAnyDelimiterMissing ==
    pc = "done" =>
        /\ result.kind \in {"null", "object"}
        /\ result.kind = "null" <=>
              \/ arg.kind # "string"
              \/ ~OccursFrom(arg.chars, CommaSpace, 0)
              \/ ~HasDashThenColon(arg.chars)
        /\ result.kind = "object" =>
              DOMAIN result
                = {"kind", "date", "time", "sender", "text", "wordCount", "sentiment"}

\* C6 witness: a string with " - " and a later ": " but no ", " was parsed
\* (null), and so was one that has all three (a record)
C6_Witness ==
    /\ pc = "done"
    /\ arg.kind = "string"
    /\ HasDashThenColon(arg.chars)
    /\ ~OccursFrom(arg.chars, CommaSpace, 0)
    /\ result.kind = "null"

\* the fields of an accepted line, given where the delimiters are: c the
\* first ", ", d the first " - ", k the first ": " at or after d
FieldsAre(s, c, d, k) ==
    /\ result.date = Between(s, 0, c)
    /\ result.sender = Between(s, d + 3, k)
    /\ Trimmed(Between(s, k + 2, Len(s)), result.text)
    /\ result.wordCount = WordStarts(result.text)

FunnyMarkers == {<<LaughEmoji>>, <<":", ")">>, <<"h", "a", "h", "a">>}

LoveMarkers == {<<HeartGlyph>>, <<"l", "o", "v", "e">>, <<"p", "y", "a", "a", "r">>}

\* the text, letters folded to lower case, contains one of the markers
ContainsAny(t, markers) ==
    \E mk \in markers : \E i \in 0..Len(t) :
        /\ i + Len(mk) <= Len(t)
        /\ \A j \in 1..Len(mk) : ToLowerCaseChar(t[i + j]) = mk[j]

\* C8: sentiment is "funny" whenever the case-folded text contains a funny
\* marker, also next to a love marker; "love" iff it contains a love marker
\* and no funny marker; "neutral" otherwise.
C8_FunnyBeatsLove ==
    Returned =>
        /\ ContainsAny(result.text, FunnyMarkers) => result.sentiment = "funny"
        /\ result.sentiment = "love" <=>
              /\ ContainsAny(result.text, LoveMarkers)
              /\ ~ContainsAny(result.text, FunnyMarkers)
        /\ (~ContainsAny(result.text, FunnyMarkers) /\ ~ContainsAny(result.text, LoveMarkers))
              => result.sentiment = "neutral"

\* C8 witness: a parsed text that holds a funny and a love marker, one of
\* them written with capital letters
C8_Witness ==
    /\ Returned
    /\ ContainsAny(result.text, FunnyMarkers)
    /\ ContainsAny(result.text, LoveMarkers)
    /\ \E i \in 1..Len(result.text) : ToLowerCaseChar(result.text[i]) # result.text[i]

\* ======================================================= processRailwayPNR
MaxPnrPrefix == 3

MaxPassengers == 3

\* the length a PNR must have (line 80)
PnrLength == 10

\* the width formattedName pads the name to (line 111)
NameWidth == 20

DigitChars == <<"0", "1", "2", "3", "4", "5", "6", "7", "8", "9">>

DecimalDigits == {DigitChars[i] : i \in 1..Len(DigitChars)}

HexDigits ==
    DecimalDigits \cup {"a", "b", "c", "d", "e", "f", "A", "B", "C", "D", "E", "F"}

AllIn(s, S) == \A i \in 1..Len(s) : s[i] \in S

\* StrUnsignedDecimalLiteral without its exponent: digits, digits with a
\* decimal point, or a decimal point followed by digits
IsMantissa(s) ==
    \/ Len(s) > 0 /\ AllIn(s, DecimalDigits)
    \/ \E p \in 1..Len(s) :
          /\ s[p] = "."
          /\ AllIn(SubSeq(s, 1, p - 1), DecimalDigits)
          /\ AllIn(SubSeq(s, p + 1, Len(s)), DecimalDigits)
          /\ Len(s) > 1

\* ExponentPart: e or E, an optional sign, digits
IsExponentPart(s) ==
    /\ Len(s) >= 2
    /\ s[1] \in {"e", "E"}
    /\ LET digits == IF s[2] \in {"+", "-"} THEN SubSeq(s, 3, Len(s)) ELSE Tail(s)
       IN  Len(digits) > 0 /\ AllIn(digits, DecimalDigits)

IsUnsignedDecimalLiteral(s) ==
    \/ s = <<"I", "n", "f", "i", "n", "i", "t", "y">>
    \/ \E i \in 1..Len(s) :
          /\ IsMantissa(SubSeq(s, 1, i))
          /\ (i = Len(s) \/ IsExponentPart(SubSeq(s, i + 1, Len(s))))

\* 0x, 0o and 0b literals, which take no sign
IsNonDecimalIntegerLiteral(s) ==
    /\ Len(s) >= 3
    /\ s[1] = "0"
    /\ \/ s[2] \in {"x", "X"} /\ AllIn(SubSeq(s, 3, Len(s)), HexDigits)
       \/ s[2] \in {"o", "O"} /\ AllIn(SubSeq(s, 3, Len(s)), {"0", "1", "2", "3", "4", "5", "6", "7"})
       \/ s[2] \in {"b", "B"} /\ AllIn(SubSeq(s, 3, Len(s)), {"0", "1"})

\* isNaN(s) for a string s: Number(s) is NaN unless s, white space trimmed,
\* is empty or a StringNumericLiteral
StringIsNaN(s) ==
    LET t == Trim(s)
        unsigned == IF Len(t) > 0 /\ t[1] \in {"+", "-"} THEN Tail(t) ELSE t
    IN  ~(\/ t = <<>>
          \/ IsUnsignedDecimalLiteral(unsigned)
          \/ IsNonDecimalIntegerLiteral(t))

ToUpperCaseChar(c) ==
    IF \E i \in 1..Len(LowerLetters) : LowerLetters[i] = c
    THEN UpperLetters[CHOOSE i \in 1..Len(LowerLetters) : LowerLetters[i] = c]
    ELSE c

\* the character U+00DF (latin small letter sharp s), whose upper-case form
\* is the two characters SS
SharpS == "U+00DF"

\* c.toUpperCase() for a one-character string c
UpperCaseOf(c) == IF c = SharpS THEN <<"S", "S">> ELSE <<ToUpperCaseChar(c)>>

\* s.toUpperCase()
ToUpperCase(s) == Flatten([i \in 1..Len(s) |-> UpperCaseOf(s[i])])

\* s.startsWith(pat)
StartsWith(s, pat) == MatchesAt(s, pat, 0)

\* s.padEnd(width)
PadEnd(s, width) ==
    IF Len(s) >= width THEN s ELSE s \o [i \in 1..(width - Len(s)) |-> " "]

RECURSIVE NatToChars(_)
\* the decimal digits of a natural number, as a template literal renders it
NatToChars(n) ==
    IF n < 10 THEN <<DigitChars[n + 1]>>
    ELSE NatToChars(n \div 10) \o <<DigitChars[(n % 10) + 1]>>

\* a string value, and the values that are no strings
StrVal(chars) == [t |-> "string", chars |-> chars]

UndefinedVal == [t |-> "undefined", chars |-> <<>>]

NumberVal == [t |-> "number", chars |-> <<>>]

\* a mutant of statusLabelOf: every value that starts with CAN is cancelled
statusLabelCanPrefix(current) ==
    IF StartsWith(current, <<"C", "A", "N">>) THEN "CANCELLED"
    ELSE IF StartsWith(current, <<"R", "A", "C">>) THEN "RAC"
    ELSE IF StartsWith(current, <<"W", "L">>) THEN "WAITING"
    ELSE "CONFIRMED"

\* lines 96-108, current being the upper-cased value of line 94
statusLabelOf(current) ==
    IF current = <<"C", "A", "N">> THEN "CANCELLED"
    ELSE IF StartsWith(current, <<"R", "A", "C">>) THEN "RAC"
    ELSE IF StartsWith(current, <<"W", "L">>) THEN "WAITING"
    ELSE IF \/ StartsWith(current, <<"B">>) \/ StartsWith(current, <<"S">>)
            \/ StartsWith(current, <<"A">>) \/ StartsWith(current, <<"M">>)
         THEN "CONFIRMED"
         ELSE "CONFIRMED"

\* the map callback of lines 92-117 throws a TypeError for a null passenger,
\* for a current that is neither a string nor null/undefined (it has no
\* toUpperCase) and for a name that is no string (it has no padEnd)
passengerThrows(p) ==
    \/ p.kind = "null"
    \/ p.current.t = "number"
    \/ p.name.t # "string"

\* the map callback of lines 92-117
processPassenger(p) ==
    LET current == IF p.current.t = "string" THEN ToUpperCase(p.current.chars) ELSE <<>>
        statusLabel == statusLabelOf(current)
    IN  [formattedName |->
            PadEnd(p.name.chars, NameWidth)
                \o <<"(">> \o NatToChars(p.age) \o <<"/">> \o p.gender \o <<")">>,
         bookingStatus |-> p.booking,
         currentStatus |-> p.current,
         statusLabel |-> statusLabel,
         isConfirmed |-> statusLabel = "CONFIRMED"]

\* the character U+2192 (rightwards arrow) of the train description
RightArrow == "U+2192"

\* a mutant of summaryCallback: the RAC branch is missing
summaryWithoutRac(acc, p) ==
    [totalPassengers |-> acc.totalPassengers + 1,
     confirmed |-> IF p.statusLabel = "CONFIRMED" THEN acc.confirmed + 1 ELSE acc.confirmed,
     waiting |-> IF p.statusLabel = "WAITING" THEN acc.waiting + 1 ELSE acc.waiting,
     cancelled |-> IF p.statusLabel = "CANCELLED" THEN acc.cancelled + 1 ELSE acc.cancelled,
     rac |-> acc.rac]

\* the reduce callback of lines 120-126
summaryCallback(acc, p) ==
    [totalPassengers |-> acc.totalPassengers + 1,
     confirmed |-> IF p.statusLabel = "CONFIRMED" THEN acc.confirmed + 1 ELSE acc.confirmed,
     waiting |->
        IF p.statusLabel # "CONFIRMED" /\ p.statusLabel = "WAITING"
        THEN acc.waiting + 1 ELSE acc.waiting,
     cancelled |->
        IF p.statusLabel \notin {"CONFIRMED", "WAITING"} /\ p.statusLabel = "CANCELLED"
        THEN acc.cancelled + 1 ELSE acc.cancelled,
     rac |->
        IF p.statusLabel \notin {"CONFIRMED", "WAITING", "CANCELLED"} /\ p.statusLabel = "RAC"
        THEN acc.rac + 1 ELSE acc.rac]

RECURSIVE reducePassengers(_, _)
reducePassengers(acc, ps) ==
    IF ps = <<>> THEN acc
    ELSE reducePassengers(summaryCallback(acc, Head(ps)), Tail(ps))

processRailwayPNR(pnrData) ==
    IF pnrData.kind # "object" THEN NullResult
    ELSE
    LET pnr == pnrData.pnr
        train == pnrData.train
        rawPassengers == pnrData.passengers
        classBooked == pnrData.classBooked
    IN  IF pnr.t # "string" \/ Len(pnr.chars) # PnrLength \/ StringIsNaN(pnr.chars)
        THEN NullResult
        ELSE IF train.kind # "object" THEN NullResult
        ELSE IF rawPassengers.kind # "array" \/ Len(rawPassengers.items) = 0 THEN NullResult
        ELSE IF \E i \in 1..Len(rawPassengers.items) : passengerThrows(rawPassengers.items[i])
        THEN Throw
        ELSE
        LET processedPassengers ==
                [i \in 1..Len(rawPassengers.items) |-> processPassenger(rawPassengers.items[i])]
            counts ==
                reducePassengers(
                    [totalPassengers |-> 0, confirmed |-> 0, waiting |-> 0,
                     cancelled |-> 0, rac |-> 0],
                    processedPassengers)
        IN  [kind |-> "object",
             pnrFormatted |->
                Slice(pnr.chars, 0, 3) \o <<"-">> \o Slice(pnr.chars, 3, 6) \o <<"-">>
                    \o Slice(pnr.chars, 6, Len(pnr.chars)),
             trainInfo |->
                <<"T", "r", "a", "i", "n", ":", " ">> \o train.number
                    \o <<" ", "-", " ">> \o train.name
                    \o <<" ", "|", " ">> \o train.from
                    \o <<" ", RightArrow, " ">> \o train.to
                    \o <<" ", "|", " ", "C", "l", "a", "s", "s", ":", " ">>
                    \o (IF classBooked.t = "string" THEN classBooked.chars
                        ELSE <<"N", "/", "A">>),
             passengers |-> processedPassengers,
             summary |->
                [totalPassengers |-> counts.totalPassengers,
                 confirmed |-> counts.confirmed,
                 waiting |-> counts.waiting,
                 cancelled |-> counts.cancelled,
                 rac |-> counts.rac,
                 allConfirmed |->
                    \A i \in 1..Len(processedPassengers) : processedPassengers[i].isConfirmed,
                 anyWaiting |->
                    \E i \in 1..Len(processedPassengers) :
                        processedPassengers[i].statusLabel = "WAITING"],
             chartPrepared |->
                \A i \in 1..Len(processedPassengers) :
                    processedPassengers[i].statusLabel # "CANCELLED"
                        => processedPassengers[i].isConfirmed]

\* the characters the varied head of a PNR is made of: digits, a sign, a
\* decimal point, a blank, the exponent letter and the x of a hex prefix
PnrChars == {"1", "0", "+", ".", " ", "e", "x"}

\* a PNR of length n: the given head, filled up with the digits 1234567890
FilledPnr(head, n) ==
    head \o [i \in 1..(n - Len(head)) |-> DigitChars[(i % 10) + 1]]

PnrValues ==
    {NumberVal}
    \cup {StrVal(FilledPnr(head, n)) :
            head \in SeqsUpTo(PnrChars, MaxPnrPrefix),
            n \in {PnrLength - 1, PnrLength, PnrLength + 1}}

\* { number: "12", name: "R", from: "N", to: "H" }
TrainObject ==
    [kind |-> "object", number |-> <<"1", "2">>, name |-> <<"R">>, from |-> <<"N">>,
     to |-> <<"H">>]

NoTrain(kind) == [kind |-> kind, number |-> <<>>, name |-> <<>>, from |-> <<>>, to |-> <<>>]

TrainValues == {TrainObject, NoTrain("undefined"), NoTrain("string")}

CurrentValues ==
    {StrVal(<<"C", "A", "N">>), StrVal(<<"c", "a", "n">>), StrVal(<<"C", "A", "N", "X">>),
     StrVal(<<"R", "A", "C", "1">>), StrVal(<<"r", "a", "c">>), StrVal(<<"W", "L", "5">>),
     StrVal(<<"w", "l">>), StrVal(<<"B", "1">>), StrVal(<<"C", "N", "F">>), StrVal(<<>>),
     UndefinedVal, NumberVal}

Passenger(name, current) ==
    [kind |-> "object", name |-> name, age |-> 28, gender |-> <<"M">>,
     booking |-> <<"W", "L", "5">>, current |-> current]

NullPassenger ==
    [kind |-> "null", name |-> UndefinedVal, age |-> 0, gender |-> <<>>, booking |-> <<>>,
     current |-> UndefinedVal]

PassengerElems ==
    {Passenger(StrVal(<<"A", "l">>), c) : c \in CurrentValues}
    \cup {Passenger(UndefinedVal, StrVal(<<"B", "1">>)), NullPassenger}

ArrayOf(items) == [kind |-> "array", items |-> items]

NotAnArray == [kind |-> "undefined", items |-> <<>>]

GoodPassengers == ArrayOf(<<Passenger(StrVal(<<"A", "l">>), StrVal(<<"B", "1">>))>>)

PnrData(pnr, train, passengers) ==
    [kind |-> "object", pnr |-> pnr, train |-> train, passengers |-> passengers,
     classBooked |-> StrVal(<<"3", "A">>)]

\* null, or a primitive, in place of the record
NoPnrData(kind) ==
    [kind |-> kind, pnr |-> NumberVal, train |-> NoTrain("undefined"),
     passengers |-> NotAnArray, classBooked |-> UndefinedVal]

\* records that differ in what the validation looks at
ValidationInputs ==
    {NoPnrData("null"), NoPnrData("string")}
    \cup {PnrData(pnr, train, ps) :
            pnr \in PnrValues, train \in TrainValues,
            ps \in {NotAnArray, ArrayOf(<<>>), GoodPassengers}}

\* records that pass the validation and differ in their passengers
PassengerInputs ==
    {[PnrData(StrVal(FilledPnr(<<>>, PnrLength)), TrainObject, ArrayOf(ps))
        EXCEPT !.classBooked = cb] :
        ps \in SeqsUpTo(PassengerElems, MaxPassengers) \ {<<>>},
        cb \in {StrVal(<<"3", "A">>), UndefinedVal}}

InitPNR ==
    /\ pc = "call"
    /\ fn = "processRailwayPNR"
    /\ arg \in ValidationInputs \cup PassengerInputs
    /\ result = NoResult

CallProcessRailwayPNR ==
    /\ pc = "call"
    /\ fn = "processRailwayPNR"
    /\ result' = processRailwayPNR(arg)
    /\ pc' = "done"
    /\ UNCHANGED <<fn, arg>>

NextPNR == CallProcessRailwayPNR

SpecPNR == InitPNR /\ [][NextPNR]_vars

\* ------------------------------------------ properties of processRailwayPNR
\* a string of exactly ten decimal digits
TenDigits(v) ==
    /\ v.t = "string"
    /\ Len(v.chars) = PnrLength
    /\ \A i \in 1..Len(v.chars) : v.chars[i] \in DecimalDigits

\* C9: the result is null for every record whose pnr is not a string of
\* exactly 10 decimal digits (a sign, a decimal point, blanks, an exponent
\* letter or a hex prefix make it invalid), whose train is no object, or
\* whose passengers are no non-empty list.
C9_NullUnlessTenDigitPnr ==
    (/\ pc = "done"
     /\ arg.kind = "object"
     /\ \/ ~TenDigits(arg.pnr)
        \/ arg.train.kind # "object"
        \/ arg.passengers.kind # "array"
        \/ Len(arg.passengers.items) = 0)
        => result.kind = "null"

\* the label the stated rules give a current value
LabelByRule(chars) ==
    IF chars = <<"C", "A", "N">> THEN "CANCELLED"
    ELSE IF Len(chars) >= 3 /\ SubSeq(chars, 1, 3) = <<"R", "A", "C">> THEN "RAC"
    ELSE IF Len(chars) >= 2 /\ SubSeq(chars, 1, 2) = <<"W", "L">> THEN "WAITING"
    ELSE "CONFIRMED"

\* the characters of a current value, none when it is missing
CurrentChars(v) == IF v.t = "string" THEN v.chars ELSE <<>>

WithLabel(label) ==
    {i \in 1..Len(result.passengers) : result.passengers[i].statusLabel = label}

\* C11: in every report, confirmed, waiting, cancelled and rac are the numbers
\* of passengers with that label and add up to totalPassengers; allConfirmed
\* iff every passenger is CONFIRMED; anyWaiting iff some passenger is
\* WAITING; chartPrepared iff every passenger that is not CANCELLED is
\* CONFIRMED, so allConfirmed implies chartPrepared.
C11_SummaryCountsAndFlags ==
    (Returned /\ fn = "processRailwayPNR") =>
        LET sm == result.summary
        IN  /\ sm.totalPassengers = Len(arg.passengers.items)
            /\ sm.totalPassengers = Len(result.passengers)
            /\ sm.confirmed = Cardinality(WithLabel("CONFIRMED"))
            /\ sm.waiting = Cardinality(WithLabel("WAITING"))
            /\ sm.cancelled = Cardinality(WithLabel("CANCELLED"))
            /\ sm.rac = Cardinality(WithLabel("RAC"))
            /\ sm.confirmed + sm.waiting + sm.cancelled + sm.rac = sm.totalPassengers
            /\ sm.allConfirmed <=> WithLabel("CONFIRMED") = 1..Len(result.passengers)
            /\ sm.anyWaiting <=> WithLabel("WAITING") # {}
            /\ result.chartPrepared <=>
                  WithLabel("CONFIRMED") \cup WithLabel("CANCELLED")
                      = 1..Len(result.passengers)
            /\ sm.allConfirmed => result.chartPrepared

\* C11 witness: a report on several passengers, all of them cancelled: the
\* chart counts as prepared although nobody is confirmed
C11_Witness ==
    /\ Returned
    /\ fn = "processRailwayPNR"
    /\ Len(result.passengers) >= 2
    /\ WithLabel("CANCELLED") = 1..Len(result.passengers)
    /\ result.chartPrepared
    /\ ~result.summary.allConfirmed

\* ======================================================= fixBollywoodTitle
MaxTitleChunks == 4

\* line 40
exceptions ==
    <<<<"k", "a">>, <<"k", "i">>, <<"k", "e">>, <<"s", "e">>, <<"a", "u", "r">>,
      <<"y", "a">>, <<"t", "h", "e">>, <<"o", "f">>, <<"i", "n">>, <<"a">>, <<"a", "n">>>>

\* exceptions.includes(word)
IsException(word) == \E i \in 1..Len(exceptions) : exceptions[i] = word

\* a mutant of formatWord: an exception word stays in small letters also as
\* the first word
formatWordNoFirstRule(word, index) ==
    LET lowerWord == ToLowerCase(word)
    IN  IF ~IsException(lowerWord)
        THEN UpperCaseOf(lowerWord[1]) \o Slice(lowerWord, 1, Len(lowerWord))
        ELSE lowerWord

\* the map callback of lines 46-56; index counts from 0 and word is not
\* empty, the title being trimmed before it is split
formatWord(word, index) ==
    LET lowerWord == ToLowerCase(word)
    IN  IF index = 0 \/ ~IsException(lowerWord)
        THEN UpperCaseOf(lowerWord[1]) \o Slice(lowerWord, 1, Len(lowerWord))
        ELSE lowerWord

RECURSIVE JoinWithSpace(_)
\* words.join(" ")
JoinWithSpace(words) ==
    IF words = <<>> THEN <<>>
    ELSE IF Len(words) = 1 THEN words[1]
    ELSE words[1] \o <<" ">> \o JoinWithSpace(Tail(words))

\* a string result
StringResult(chars) == [kind |-> "string", chars |-> chars]

fixBollywoodTitle(title) ==
    IF title.kind # "string" \/ Trim(title.chars) = <<>> THEN StringResult(<<>>)
    ELSE
    LET words == SplitWhiteSpace(Trim(title.chars))
        formattedWords == [i \in 1..Len(words) |-> formatWord(words[i], i - 1)]
    IN  StringResult(JoinWithSpace(formattedWords))

\* the pieces the titles are made of: white space, the exception words "a"
\* and "ka" in several spellings, a word that is no exception, and a sharp s
TitleChunks ==
    {<<" ">>, <<"\t">>, <<"a">>, <<"A">>, <<"k", "A">>, <<"K", "a">>,
     <<"d", "I", "L">>, <<SharpS>>}

TitleInputs ==
    NonStringInputs
    \cup {[kind |-> "string", chars |-> Flatten(cs)] :
            cs \in SeqsUpTo(TitleChunks, MaxTitleChunks)}

InitTitle ==
    /\ pc = "call"
    /\ fn = "fixBollywoodTitle"
    /\ arg \in TitleInputs
    /\ result = NoResult

CallFixBollywoodTitle ==
    /\ pc = "call"
    /\ fn = "fixBollywoodTitle"
    /\ result' = fixBollywoodTitle(arg)
    /\ pc' = "done"
    /\ UNCHANGED <<fn, arg>>

\* the caller passes the title it got back to the function once more
CallFixBollywoodTitleAgain ==
    /\ pc = "done"
    /\ fn = "fixBollywoodTitle"
    /\ arg' = result
    /\ result' = fixBollywoodTitle(result)
    /\ pc' = "again"
    /\ UNCHANGED fn

NextTitle == CallFixBollywoodTitle \/ CallFixBollywoodTitleAgain

SpecTitle == InitTitle /\ [][NextTitle]_vars

\* ------------------------------------------ properties of fixBollywoodTitle
\* the function has been applied to arg, and result is what it gave
TitleReturned == fn = "fixBollywoodTitle" /\ pc \in {"done", "again"}

IsBlank(c) == c \in WhiteSpaceChars

\* w with every letter in small letters
SmallLetters(w) == [i \in 1..Len(w) |-> ToLowerCaseChar(w[i])]

\* w equals one of the listed small words when case is ignored
IsSmallWord(w) ==
    SmallLetters(w) \in
        {<<"k", "a">>, <<"k", "i">>, <<"k", "e">>, <<"s", "e">>, <<"a", "u", "r">>,
         <<"y", "a">>, <<"t", "h", "e">>, <<"o", "f">>, <<"i", "n">>, <<"a">>, <<"a", "n">>}

\* first letter upper case, the rest lower case
Capitalised(w) ==
    UpperCaseOf(w[1]) \o [i \in 1..(Len(w) - 1) |-> ToLowerCaseChar(w[i + 1])]

\* the spelling the rules give the word w
TitleCased(w, isFirst) ==
    IF ~isFirst /\ IsSmallWord(w) THEN SmallLetters(w) ELSE Capitalised(w)

RECURSIVE ExpectedTitle(_, _, _)
\* the title the rules give for the part of s from position from on: its
\* words (the maximal runs of characters that are no white space), each
\* respelled, with one blank in front of every word but the first
ExpectedTitle(s, from, isFirst) ==
    LET starts == {a \in from..Len(s) : ~IsBlank(s[a])}
    IN  IF starts = {} THEN <<>>
        ELSE
        LET a == SetMin(starts)
            ends == {b \in a..Len(s) : \A i \in a..b : ~IsBlank(s[i])}
            b == CHOOSE x \in ends : \A y \in ends : y <= x
        IN  (IF isFirst THEN <<>> ELSE <<" ">>)
                \o TitleCased(SubSeq(s, a, b), isFirst)
                \o ExpectedTitle(s, b + 1, FALSE)

C13_Idempotent == (fn = "fixBollywoodTitle" /\ pc = "again") => result = arg

\* ------------------------------------------------------ generateReportCard
\* Largest number of subjects in a marks object.
MaxSubjects == 3

\* A mark is a number value whose n counts thousandths of a mark (85 is
\* Num(85000), 39.996 is Num(39996)); a percentage counts hundredths.
NaN == [t |-> "number", n |-> 0, s |-> "NaN", app |-> <<>>]

\* isNaN(v) for a value of type number
IsNaN(v) == v.t = "number" /\ v.s = "NaN"

\* score < m and score > m for a number score: false when score is NaN
NumLess(score, m) == ~IsNaN(score) /\ score.n < m

NumGreater(score, m) == ~IsNaN(score) /\ score.n > m

\* the condition under which the validation loop gives up on a mark
isInvalidScore(score) ==
    \/ score.t # "number"
    \/ NumLess(score, 0)
    \/ NumGreater(score, 100000)
    \/ IsNaN(score)

RECURSIVE reduceSum(_, _)
\* markValues.reduce((sum, val) => sum + val, sum)
reduceSum(sum, markValues) ==
    IF markValues = <<>> THEN sum
    ELSE reduceSum(sum + Head(markValues).v.n, Tail(markValues))

\* a percentage cut off after two decimals instead of rounded
percentageTruncated(totalMarks, subjectCount) == totalMarks \div (10 * subjectCount)

\* parseFloat(((totalMarks / (subjectCount * 100)) * 100).toFixed(2)), in
\* hundredths: toFixed(2) takes the hundredth nearest to the number, the
\* larger one when two are equally near
percentageOf(totalMarks, subjectCount) ==
    (2 * totalMarks + 10 * subjectCount) \div (20 * subjectCount)

\* the if / else-if chain on percentage
gradeOf(percentage) ==
    IF percentage >= 9000 THEN "A+"
    ELSE IF percentage >= 8000 THEN "A"
    ELSE IF percentage >= 7000 THEN "B"
    ELSE IF percentage >= 6000 THEN "C"
    ELSE IF percentage >= 4000 THEN "D"
    ELSE "F"

RECURSIVE reduceHighest(_, _)
\* entries.reduce((max, curr) => curr[1] > max[1] ? curr : max)
reduceHighest(max, rest) ==
    IF rest = <<>> THEN max
    ELSE reduceHighest(IF Head(rest).v.n > max.v.n THEN Head(rest) ELSE max, Tail(rest))

RECURSIVE reduceLowest(_, _)
\* entries.reduce((min, curr) => curr[1] < min[1] ? curr : min)
reduceLowest(min, rest) ==
    IF rest = <<>> THEN min
    ELSE reduceLowest(IF Head(rest).v.n < min.v.n THEN Head(rest) ELSE min, Tail(rest))

\* entries.map(([subject]) => subject)
mapSubject(entries) == [i \in 1..Len(entries) |-> entries[i].k]

\* entries.filter(([_, score]) => score >= 40).map(([subject]) => subject)
passedSubjectsOf(entries) == mapSubject(SelectSeq(entries, LAMBDA e : e.v.n >= 40000))

\* entries.filter(([_, score]) => score < 40).map(([subject]) => subject)
failedSubjectsOf(entries) == mapSubject(SelectSeq(entries, LAMBDA e : e.v.n < 40000))

generateReportCard(student) ==
    IF student.kind # "student" THEN NullResult
    ELSE IF student.name.t # "string" \/ Trim(student.name.chars) = <<>> THEN NullResult
    ELSE IF student.marks.t # "object" \/ Len(student.marks.props) = 0 THEN NullResult
    ELSE
    LET entries == ObjectEntries(student.marks.props)
    IN  IF \E i \in 1..Len(entries) : isInvalidScore(entries[i].v) THEN NullResult
        ELSE
        LET subjectCount == Len(entries)
            totalMarks == reduceSum(0, entries)
            percentage == percentageOf(totalMarks, subjectCount)
        IN  [kind |-> "object",
             name |-> student.name.chars,
             totalMarks |-> totalMarks,
             percentage |-> percentage,
             grade |-> gradeOf(percentage),
             highestSubject |-> reduceHighest(entries[1], Tail(entries)).k,
             lowestSubject |-> reduceLowest(entries[1], Tail(entries)).k,
             passedSubjects |-> passedSubjectsOf(entries),
             failedSubjects |-> failedSubjectsOf(entries),
             subjectCount |-> subjectCount]

\* subject names: two of them are array-index names, which Object.entries
\* lists first
SubjectNames == {"maths", "science", "9", "1"}

\* marks inside and at the ends of the range, next to the pass mark and next
\* to a grade limit; no sum of up to MaxSubjects + 1 of them lies halfway
\* between two hundredths when divided by their count
ValidMarks == {Num(0), Num(39996), Num(40000), Num(79996), Num(100000)}

\* marks the validation refuses: the string "85", NaN, -0.004 and 100.004
InvalidMarks == {Str("85"), NaN, Num(-4), Num(100004)}

\* the marks objects with the subjects named by names, in that order
MarksOver(names) ==
    {[t |-> "object",
      props |-> [i \in 1..Len(names) |-> [k |-> names[i], v |-> marks[i]]]] :
        marks \in [1..Len(names) -> ValidMarks \cup InvalidMarks]}

\* the orders in which subjects are written into a marks object: no
\* property name occurs twice in an object
SubjectOrders ==
    {q \in SeqsUpTo(SubjectNames, MaxSubjects) :
        \A i, j \in 1..Len(q) : q[i] = q[j] => i = j}

\* marks that is null, and marks that is the string "85"
NonObjectMarks == {[t |-> "null", props |-> <<>>], [t |-> "string", props |-> <<>>]}

\* names: " R ", "", a tab and a blank, and a name that is no string
StudentNames ==
    {[t |-> "string", chars |-> <<" ", "R", " ">>],
     [t |-> "string", chars |-> <<>>],
     [t |-> "string", chars |-> <<"\t", " ">>],
     [t |-> "undefined", chars |-> <<>>]}

\* a student that is no object: null and a number
NonObjectStudents == {[kind |-> "null"], [kind |-> "number"]}

Student(name, marks) == [kind |-> "student", name |-> name, marks |-> marks]

InitReport ==
    /\ pc = "call"
    /\ fn = "generateReportCard"
    /\ result = NoResult
    /\ \/ arg \in NonObjectStudents
       \/ \E name \in StudentNames :
             \/ \E marks \in NonObjectMarks : arg = Student(name, marks)
             \/ \E names \in SubjectOrders :
                   \E marks \in MarksOver(names) : arg = Student(name, marks)

CallGenerateReportCard ==
    /\ pc = "call"
    /\ fn = "generateReportCard"
    /\ result' = generateReportCard(arg)
    /\ pc' = "done"
    /\ UNCHANGED <<fn, arg>>

NextReport == CallGenerateReportCard

SpecReport == InitReport /\ [][NextReport]_vars

ReportDone == fn = "generateReportCard" /\ pc = "done"

\* the student's marks are a mapping with at least one subject, every mark a
\* number from 0 to 100
MarksInRange ==
    /\ arg.kind = "student"
    /\ arg.marks.t = "object"
    /\ arg.marks.props # <<>>
    /\ \A i \in 1..Len(arg.marks.props) :
          LET m == arg.marks.props[i].v
          IN  m.t = "number" /\ m.s # "NaN" /\ 0 <= m.n /\ m.n <= 100000

\* the name is a string of at least one character
NonEmptyName == arg.kind = "student" /\ arg.name.t = "string" /\ arg.name.chars # <<>>

\* the name is a string with a character that is no white space
NonBlankName ==
    /\ arg.kind = "student"
    /\ arg.name.t = "string"
    /\ \E i \in 1..Len(arg.name.chars) : arg.name.chars[i] \notin WhiteSpaceChars

\* the subjects in the order in which the mapping lists them
MappingOrder == ObjectEntries(arg.marks.props)

\* the subject at position i of the mapping is the first one holding mark m
FirstHolding(i, m) ==
    /\ MappingOrder[i].v.n = m
    /\ \A j \in 1..(i - 1) : MappingOrder[j].v.n # m

\* the grade of a percentage given in hundredths
GradeFor(p) ==
    CASE p >= 9000 -> "A+"
      [] p < 9000 /\ p >= 8000 -> "A"
      [] p < 8000 /\ p >= 7000 -> "B"
      [] p < 7000 /\ p >= 6000 -> "C"
      [] p < 6000 /\ p >= 4000 -> "D"
      [] OTHER -> "F"

\* the returned report states what the claim says about the student
ReportIsRight ==
    LET props == arg.marks.props
        count == Len(props)
        total == SumOfValues(props)
        marks == {props[i].v.n : i \in 1..count}
        highest == CHOOSE m \in marks : \A x \in marks : x <= m
        lowest == CHOOSE m \in marks : \A x \in marks : m <= x
    IN  /\ result.kind = "object"
        /\ result.totalMarks = total
        \* the percentage is the hundredth nearest to total / count
        /\ 10 * count * result.percentage - 5 * count <= total
        /\ total < 10 * count * result.percentage + 5 * count
        /\ result.grade = GradeFor(result.percentage)
        /\ \A i \in 1..count :
              /\ props[i].v.n >= 40000 <=>
                    \E j \in 1..Len(result.passedSubjects) :
                        result.passedSubjects[j] = props[i].k
              /\ props[i].v.n < 40000 <=>
                    \E j \in 1..Len(result.failedSubjects) :
                        result.failedSubjects[j] = props[i].k
        /\ Len(result.passedSubjects) + Len(result.failedSubjects) = count
        /\ \E i \in 1..count :
              MappingOrder[i].k = result.highestSubject /\ FirstHolding(i, highest)
        /\ \E i \in 1..count :
              MappingOrder[i].k = result.lowestSubject /\ FirstHolding(i, lowest)

\* C14 as written: a student with a name of at least one character and marks
\* in range gets a report with the sum, the grade of the rounded percentage,
\* the passed and the failed subjects and the first subject in mapping order
\* with the highest and with the lowest mark; every other input gives null.
C14_ReportForNonEmptyName ==
    ReportDone =>
        IF NonEmptyName /\ MarksInRange THEN ReportIsRight ELSE result = NullResult

\* C14 amended: the same with the name required to hold a character that is
\* no white space; a name of white space only gives null like an empty one.
C14_ReportForNonBlankName ==
    ReportDone =>
        IF NonBlankName /\ MarksInRange THEN ReportIsRight ELSE result = NullResult

\* C14 witness: a report for three subjects of which the first written one is
\* not the first listed, two share the highest mark, one failed, and the
\* percentage was rounded up to the next grade
C14_Witness ==
    /\ ReportDone
    /\ result.kind = "object"
    /\ result.subjectCount = 3
    /\ arg.marks.props[1].k = "maths"
    /\ arg.marks.props[1].v.n = 100000
    /\ result.highestSubject = "9"
    /\ result.failedSubjects = <<"1">>
    /\ 10 * result.subjectCount * result.percentage > result.totalMarks
    /\ result.grade = "A"

====
